---- MODULE Spec2Model ----
(***************************************************************************)
(* Stateless session tokens of app/services/session.py and the handlers    *)
(* that issue and verify them (users.py login/logout, main.py middleware). *)
(*                                                                         *)
(* A token is a sequence of character codes; bytes are naturals 0..255.    *)
(* base64 is computed bit for bit, as Python's non-strict decoder does it. *)
(* The JSON payload is four one-byte fields in key order; the HMAC is a    *)
(* keyed digest without collisions on the messages of the model.           *)
(* The clock runs in ticks of 1/Res second; int(time.time()) truncates it. *)
(*                                                                         *)
(*   Spec        logins, logouts and requests under one configuration      *)
(*   SpecConfig  the same with restarts under other SESSION_SECRET values  *)
(*   SpecVerify  verify_session_token on altered and hand-made tokens      *)
(*                                                                         *)
(* The alert engine of app/services/alert_service.py and the handlers of   *)
(* app/routers/receipts.py that call it.  Tables are sequences of rows, a  *)
(* date 'YYYY-MM-DD' is the number YYYYMMDD, money is whole won, and the   *)
(* thresholds are compared as exact fractions.                             *)
(*                                                                         *)
(*   SpecLedger  confirm, update and soft delete, with storage errors      *)
(*   SpecAlerts  the same with the acknowledgements of routers/alerts.py   *)
(*   SpecDetect  each detector applied to a ledger drawn from LedgerInputs *)
(*   SpecRace    two requests side by side, one SQL statement per step     *)
(***************************************************************************)
EXTENDS Integers, Sequences, FiniteSets, TLC

VARIABLES
  env,                  \* the SESSION_SECRET environment entry of the running process
  SESSION_SECRET,       \* session.py module global, set at import
  SESSION_TTL_SECONDS,  \* session.py module global, set at import
  clock,                \* time.time(), in ticks
  cookie,               \* the browser's sl_session cookie (<<>>: none)
  latest,               \* history: the most recent call of create_session_token
  held,                 \* history: an issued token some client kept a copy of
  request,              \* the request being handled: its token and what verification returned
  receipts,             \* table receipts: the row with id i is receipts[i]
  receipt_items,        \* table receipt_items, in insertion order
  budgets,              \* table budgets, in insertion order
  alerts,               \* table alerts: the row with id i is alerts[i]
  today,                \* SQLite's date('now')
  result,               \* history: the last ledger request or detector call and its outcome
  conns,                \* the connections of requests running side by side, statement by statement
  lock                  \* the connection holding SQLite's write lock (0: none)

session == << env, SESSION_SECRET, SESSION_TTL_SECONDS, clock, cookie, latest, held, request >>
ledger == << receipts, receipt_items, budgets, alerts, today, result, conns, lock >>
vars == << session, ledger >>

(* ---------------------------- bounds ---------------------------------- *)
Res == 2            \* clock ticks per second
MaxTime == 3        \* last second the clock reaches (the first is second 1)
MaxTTL == 2         \* largest SESSION_TTL_SECONDS the configuration supplies

Subjects == {1, 2}           \* users.id of the accounts that log in
Nonces == {0, 1}             \* outcomes of os.urandom(8).hex()
TTLs == (-1)..MaxTTL         \* int(os.getenv("SESSION_TTL_SECONDS", ...)) is any integer
Bits == 0..7

(* ------------------------- character codes ---------------------------- *)
Dot == 46           \* "."
PadChar == 61       \* "="
NonInt == 128       \* field bytes from here on stand for non-integer JSON values
NoneVal == 255      \* dict.get on a missing key

(* ----------------------------- secrets -------------------------------- *)
\* Secret strings are one-character strings, held as their utf-8 bytes.
DefaultSecret == <<79>>
EnvValues == { [isSet |-> FALSE, val |-> <<>>],
               [isSet |-> TRUE,  val |-> <<>>],
               [isSet |-> TRUE,  val |-> <<97>>],
               [isSet |-> TRUE,  val |-> <<98>>] }

\* os.getenv("SESSION_SECRET") or "<default>"
LoadSecret(e) == IF e.isSet /\ e.val # <<>> THEN e.val ELSE DefaultSecret

(* ----------------------------- base64 --------------------------------- *)
Pow2(n) == 2 ^ n

FlipBit(c, b) == IF (c \div Pow2(b)) % 2 = 1 THEN c - Pow2(b) ELSE c + Pow2(b)

\* urlsafe alphabet: A-Z a-z 0-9 - _
B64Char(v) ==
  IF v < 26 THEN 65 + v
  ELSE IF v < 52 THEN 97 + (v - 26)
  ELSE IF v < 62 THEN 48 + (v - 52)
  ELSE IF v = 62 THEN 45 ELSE 95

\* decode table after the urlsafe translation ("-" -> "+", "_" -> "/");
\* 64 marks a character outside the alphabet
B64Val(c) ==
  IF c >= 65 /\ c <= 90 THEN c - 65
  ELSE IF c >= 97 /\ c <= 122 THEN c - 71
  ELSE IF c >= 48 /\ c <= 57 THEN c + 4
  ELSE IF c = 45 \/ c = 43 THEN 62
  ELSE IF c = 95 \/ c = 47 THEN 63
  ELSE 64

RECURSIVE B64EncodePadded(_)
B64EncodePadded(data) ==
  IF Len(data) = 0 THEN <<>>
  ELSE IF Len(data) = 1 THEN
    << B64Char(data[1] \div 4), B64Char((data[1] % 4) * 16), PadChar, PadChar >>
  ELSE IF Len(data) = 2 THEN
    << B64Char(data[1] \div 4),
       B64Char((data[1] % 4) * 16 + data[2] \div 16),
       B64Char((data[2] % 16) * 4), PadChar >>
  ELSE
    << B64Char(data[1] \div 4),
       B64Char((data[1] % 4) * 16 + data[2] \div 16),
       B64Char((data[2] % 16) * 4 + data[3] \div 64),
       B64Char(data[3] % 64) >>
    \o B64EncodePadded(SubSeq(data, 4, Len(data)))

RECURSIVE RStripPad(_)
RStripPad(s) ==
  IF Len(s) > 0 /\ s[Len(s)] = PadChar THEN RStripPad(SubSeq(s, 1, Len(s) - 1)) ELSE s

b64url_encode(data) == RStripPad(B64EncodePadded(data))

\* binascii.a2b_base64, non-strict: characters outside the alphabet are
\* skipped, a completed pad sequence ends the parse, leftover bits are dropped.
RECURSIVE A2B(_, _, _, _, _, _)
A2B(s, i, quad, left, pads, out) ==
  IF i > Len(s) THEN [ok |-> quad = 0, bytes |-> out]
  ELSE IF s[i] = PadChar THEN
    IF quad >= 2 /\ quad + pads + 1 >= 4 THEN [ok |-> TRUE, bytes |-> out]
    ELSE A2B(s, i + 1, quad, left, IF quad >= 2 THEN pads + 1 ELSE pads, out)
  ELSE IF B64Val(s[i]) >= 64 THEN A2B(s, i + 1, quad, left, pads, out)
  ELSE LET v == B64Val(s[i]) IN
    IF quad = 0 THEN A2B(s, i + 1, 1, v, 0, out)
    ELSE IF quad = 1 THEN
      A2B(s, i + 1, 2, v % 16, 0, Append(out, left * 4 + v \div 16))
    ELSE IF quad = 2 THEN
      A2B(s, i + 1, 3, v % 4, 0, Append(out, left * 16 + v \div 4))
    ELSE A2B(s, i + 1, 0, 0, 0, Append(out, left * 64 + v))

Padding(n) == [k \in 1..((4 - (n % 4)) % 4) |-> PadChar]

\* variant: the "=" padding is not restored before decoding
b64url_decode_nopad(data) ==
  IF \E i \in 1..Len(data) : data[i] >= 128 THEN [ok |-> FALSE, bytes |-> <<>>]
  ELSE A2B(data, 1, 0, 0, 0, <<>>)

\* a str with a non-ASCII character cannot be encoded: ValueError
b64url_decode(data) ==
  IF \E i \in 1..Len(data) : data[i] >= 128 THEN [ok |-> FALSE, bytes |-> <<>>]
  ELSE A2B(data \o Padding(Len(data)), 1, 0, 0, 0, <<>>)

(* ------------------------------ json ---------------------------------- *)
\* variant: the payload carries no random field
DumpsNoNonce(payload) == << payload.exp, payload.iat, 0, payload.uid >>

\* json.dumps(payload, separators=(",", ":"), sort_keys=True).encode("utf-8"):
\* one byte per field, in key order exp, iat, rnd, uid.
Dumps(payload) == << payload.exp, payload.iat, payload.rnd, payload.uid >>

\* json.loads(payload_bytes.decode("utf-8")): four fields, or three when the
\* document has no "exp"; anything else is no JSON document.
Loads(bytes) ==
  IF Len(bytes) = 4 THEN
    [ok |-> TRUE,
     doc |-> [exp |-> bytes[1], iat |-> bytes[2], rnd |-> bytes[3], uid |-> bytes[4]]]
  ELSE IF Len(bytes) = 3 THEN
    [ok |-> TRUE, doc |-> [iat |-> bytes[1], rnd |-> bytes[2], uid |-> bytes[3]]]
  ELSE [ok |-> FALSE, doc |-> [uid |-> NoneVal]]

\* payload.get("exp")
GetExp(doc) == IF "exp" \in DOMAIN doc THEN doc.exp ELSE NoneVal

IsInt(v) == v < NonInt

(* ------------------------------ hmac ---------------------------------- *)
DigestSize == 8

\* hmac.new(secret, msg, sha256).digest(): a keyed function without
\* collisions on messages of up to DigestSize - 2 bytes and one-byte keys.
RECURSIVE ZeroPad(_, _)
ZeroPad(msg, n) == IF Len(msg) >= n THEN SubSeq(msg, 1, n) ELSE ZeroPad(<<0>> \o msg, n)

\* variant: the digest does not depend on the key
HmacDigestKeyless(secret, msg) == << Len(msg), 0 >> \o ZeroPad(msg, DigestSize - 2)

HmacDigest(secret, msg) ==
  << Len(msg), IF secret = <<>> THEN 0 ELSE secret[1] >> \o ZeroPad(msg, DigestSize - 2)

\* hmac.compare_digest
CompareDigest(a, b) == a = b

(* --------------------------- session.py ------------------------------- *)
\* _get_secret_bytes: raises RuntimeError when SESSION_SECRET is empty
get_secret_bytes(secretStr) == [ok |-> secretStr # <<>>, bytes |-> secretStr]

\* int(time.time())
IntTime(t) == t \div Res

NoDoc == [uid |-> NoneVal]

create_session_token(user_id, now, ttl, rnd, secretStr) ==
  LET payload == [uid |-> user_id, iat |-> now, exp |-> now + ttl, rnd |-> rnd]
      payload_bytes == Dumps(payload)
      secret == get_secret_bytes(secretStr)
      sig == HmacDigest(secret.bytes, payload_bytes)
  IN  [ok |-> secret.ok,
       token |-> b64url_encode(payload_bytes) \o <<Dot>> \o b64url_encode(sig)]

\* variant: str.split(".", 1)
SplitFirst(s) ==
  IF \A i \in 1..Len(s) : s[i] # Dot THEN << s >>
  ELSE LET i == CHOOSE j \in 1..Len(s) :
                  s[j] = Dot /\ \A k \in 1..(j - 1) : s[k] # Dot
       IN  << SubSeq(s, 1, i - 1), SubSeq(s, i + 1, Len(s)) >>

\* str.split(".")
RECURSIVE Split(_)
Split(s) ==
  IF \A i \in 1..Len(s) : s[i] # Dot THEN << s >>
  ELSE LET i == CHOOSE j \in 1..Len(s) :
                  s[j] = Dot /\ \A k \in 1..(j - 1) : s[k] # Dot
       IN  << SubSeq(s, 1, i - 1) >> \o Split(SubSeq(s, i + 1, Len(s)))

\* variant: one second of leeway
ExpiredLeeway(exp, now) == exp + 1 < now

\* variant: exp <= int(time.time())
ExpiredInclusive(exp, now) == exp <= now

\* exp < int(time.time())
Expired(exp, now) == exp < now

Outcome(status, stage, doc) == [status |-> status, stage |-> stage, payload |-> doc]

\* the second try block of verify_session_token, before its except clause:
\* status "raise" is an exception leaving the block
VerifyBody(payload_b64, sig_b64, secretStr, now) ==
  LET payload_dec == b64url_decode(payload_b64)
      sig_dec == b64url_decode(sig_b64)
      secret == get_secret_bytes(secretStr)
      sig_expected == HmacDigest(secret.bytes, payload_dec.bytes)
      parsed == Loads(payload_dec.bytes)
      exp == GetExp(parsed.doc)
  IN  IF ~payload_dec.ok \/ ~sig_dec.ok THEN Outcome("raise", "decode", NoDoc)
      ELSE IF ~secret.ok THEN Outcome("raise", "secret", NoDoc)
      ELSE IF ~CompareDigest(sig_dec.bytes, sig_expected)
        THEN Outcome("none", "signature", NoDoc)
      ELSE IF ~parsed.ok THEN Outcome("raise", "json", NoDoc)
      ELSE IF ~IsInt(exp) \/ Expired(exp, now) THEN Outcome("none", "exp", NoDoc)
      ELSE Outcome("payload", "ok", parsed.doc)

\* variant: no except clause
ExceptNothing(r) == r

\* except Exception: return None
ExceptException(r) == IF r.status = "raise" THEN Outcome("none", r.stage, NoDoc) ELSE r

verify_session_token(token, secretStr, now) ==
  IF token = <<>> THEN Outcome("none", "empty", NoDoc)
  ELSE LET parts == Split(token) IN
    IF Len(parts) # 2 THEN Outcome("none", "split", NoDoc)
    ELSE ExceptException(VerifyBody(parts[1], parts[2], secretStr, now))

(* ----------------------------- state ---------------------------------- *)
NoToken ==
  [token |-> <<>>, uid |-> 0, iat |-> 0, ttl |-> 0, rnd |-> 0,
   secret |-> <<>>, configured |-> FALSE, kept |-> FALSE]

NoRequest ==
  [kind |-> "none", token |-> <<>>, now |-> 0,
   status |-> "none", stage |-> "start", payload |-> NoDoc, user_id |-> NoneVal]

Now == IntTime(clock)

\* what a verification of token at this moment leaves behind;
\* user_id is session_data.get("uid") if session_data else None
Verified(kind, token, r) ==
  [kind |-> kind, token |-> token, now |-> Now,
   status |-> r.status, stage |-> r.stage, payload |-> r.payload,
   user_id |-> IF r.status = "payload" THEN r.payload.uid ELSE NoneVal]

\* variant: a server-side session table that knows only the latest login
MiddlewareLatestOnly(kind, tok) ==
  Verified(kind, tok,
           IF tok # <<>> /\ tok = latest.token
           THEN verify_session_token(tok, SESSION_SECRET, Now)
           ELSE Outcome("none", "empty", NoDoc))

\* main.py add_session_to_request, on a request carrying cookie value tok
Middleware(kind, tok) ==
  Verified(kind, tok,
           IF tok # <<>> THEN verify_session_token(tok, SESSION_SECRET, Now)
           ELSE Outcome("none", "empty", NoDoc))

(* ------------------------- the ledger: tables ------------------------- *)
\* the connection's view of the database: the tables and date('now')
Conn(rs, its, bs, als, now) ==
  [receipts |-> rs, receipt_items |-> its, budgets |-> bs, alerts |-> als, today |-> now]

NoTables == Conn(<<>>, <<>>, <<>>, <<>>, 0)

\* seq: the number of ledger requests so far
NoResult ==
  [op |-> "none", user_id |-> 0, receipt_id |-> 0, alert_id |-> 0, failAt |-> "none", status |-> "none",
   detectors |-> <<>>, before |-> NoTables, work |-> NoTables, seq |-> 0]

\* the session specifications run without a ledger
NoLedger ==
  /\ receipts = <<>>
  /\ receipt_items = <<>>
  /\ budgets = <<>>
  /\ alerts = <<>>
  /\ today = 0
  /\ result = NoResult
  /\ conns = <<>>
  /\ lock = 0

Configured == [isSet |-> TRUE, val |-> <<97>>]

InitWith(envs, ttls) ==
  /\ env \in envs
  /\ SESSION_SECRET = LoadSecret(env)
  /\ SESSION_TTL_SECONDS \in ttls
  /\ clock = Res
  /\ cookie = <<>>
  /\ latest = NoToken
  /\ held = NoToken
  /\ request = NoRequest
  /\ NoLedger

Init == InitWith({Configured}, TTLs)

\* Requests are handled one at a time, each within one reading of the clock:
\* a handler starts when no request is in flight (request = NoRequest).
Tick ==
  /\ request = NoRequest
  /\ clock < (MaxTime + 1) * Res - 1
  /\ clock' = clock + 1
  /\ request' = NoRequest
  /\ UNCHANGED << env, SESSION_SECRET, SESSION_TTL_SECONDS, cookie, latest, held, ledger >>

\* POST /users/login with a correct password: a token is issued and set as
\* the cookie.  keep: some client keeps a copy of this token.
login_submit(uid, rnd, keep) ==
  LET made == create_session_token(uid, Now, SESSION_TTL_SECONDS, rnd, SESSION_SECRET)
      rec == [token |-> made.token, uid |-> uid, iat |-> Now,
              ttl |-> SESSION_TTL_SECONDS, rnd |-> rnd,
              secret |-> SESSION_SECRET, configured |-> env.isSet, kept |-> keep]
  IN  /\ request = NoRequest
      /\ made.ok
      /\ request' = NoRequest
      /\ cookie' = made.token
      /\ latest' = rec
      /\ held' = IF keep THEN rec ELSE held
      /\ UNCHANGED << env, SESSION_SECRET, SESSION_TTL_SECONDS, clock, ledger >>

\* GET /users/logout: deletes the cookie, nothing else
logout ==
  /\ request = NoRequest
  /\ request' = NoRequest
  /\ cookie' = <<>>
  /\ UNCHANGED << env, SESSION_SECRET, SESSION_TTL_SECONDS, clock, latest, held, ledger >>

\* any other request from the browser, with its current cookie
add_session_to_request ==
  /\ request = NoRequest
  /\ request' = Middleware("cookie", cookie)
  /\ UNCHANGED << env, SESSION_SECRET, SESSION_TTL_SECONDS, clock, cookie, latest, held, ledger >>

\* a request from the holder of the kept copy
replay_request ==
  /\ request = NoRequest
  /\ held # NoToken
  /\ request' = Middleware("held", held.token)
  /\ UNCHANGED << env, SESSION_SECRET, SESSION_TTL_SECONDS, clock, cookie, latest, held, ledger >>

\* the response is sent: request.state is dropped
respond ==
  /\ request # NoRequest
  /\ request' = NoRequest
  /\ UNCHANGED << env, SESSION_SECRET, SESSION_TTL_SECONDS, clock, cookie, latest, held, ledger >>

Next ==
  \/ Tick
  \/ respond
  \/ \E uid \in Subjects, rnd \in Nonces, keep \in BOOLEAN : login_submit(uid, rnd, keep)
  \/ logout
  \/ add_session_to_request
  \/ replay_request

Spec == Init /\ [][Next]_vars

(* ------------------- restart with another configuration --------------- *)
\* the process is started again with environment entry e: session.py is
\* imported afresh; what the clients hold is untouched
restart(e) ==
  /\ request = NoRequest
  /\ e # env
  /\ env' = e
  /\ SESSION_SECRET' = LoadSecret(e)
  /\ request' = NoRequest
  /\ UNCHANGED << SESSION_TTL_SECONDS, clock, cookie, latest, held, ledger >>

InitConfig == InitWith(EnvValues, {0, MaxTTL})

NextConfig ==
  \/ Tick
  \/ respond
  \/ \E e \in EnvValues : restart(e)
  \/ \E uid \in Subjects, rnd \in Nonces : login_submit(uid, rnd, TRUE)
  \/ logout
  \/ add_session_to_request
  \/ replay_request

SpecConfig == InitConfig /\ [][NextConfig]_vars

(* ------------------ verify_session_token on crafted input -------------- *)
PayloadPart(tok) == Split(tok)[1]
SigPart(tok) == Split(tok)[2]

Sign(bytes, secretStr) ==
  b64url_encode(bytes) \o <<Dot>> \o b64url_encode(HmacDigest(secretStr, bytes))

InsertAt(s, j, x) == SubSeq(s, 1, j) \o x \o SubSeq(s, j + 1, Len(s))

Bang == <<33>>      \* "!", a character outside the base64 alphabet

\* the kept token with other separators than its one "."
SeparatorInputs(tok) ==
  { PayloadPart(tok) \o SigPart(tok),
    tok \o <<Dot>>,
    <<Dot>> \o tok,
    tok \o <<Dot>> \o SigPart(tok),
    <<Dot>> }

\* documents the server never issued, signed with key k: exp not an integer,
\* no exp, not a JSON document (twice), and an exp of the holder's choosing
ForgedInputs(rec, k) ==
  { Sign(<< NonInt, rec.iat, rec.rnd, rec.uid >>, k),
    Sign(<< rec.iat, rec.rnd, rec.uid >>, k),
    Sign(<< rec.iat, rec.uid >>, k),
    Sign(<<>>, k),
    Sign(Dumps([exp |-> MaxTime + MaxTTL, iat |-> rec.iat, rnd |-> rec.rnd, uid |-> rec.uid]), k) }

\* the kept token with characters base64 ignores, or padding, added
PaddedInputs(tok) ==
  { InsertAt(tok, j, Bang) : j \in {0, Len(tok)} }
  \cup { InsertAt(tok, j, Bang \o Bang \o Bang \o Bang) : j \in {0, 1, Len(tok)} }
  \cup { tok \o <<PadChar>>, tok \o <<PadChar, PadChar>> }

verify_input(kind, tok) ==
  /\ request = NoRequest
  /\ request' = Verified(kind, tok, verify_session_token(tok, SESSION_SECRET, Now))
  /\ UNCHANGED << env, SESSION_SECRET, SESSION_TTL_SECONDS, clock, cookie, latest, held, ledger >>

verify_flipped(pos, bit) ==
  /\ held # NoToken
  /\ pos \in 1..Len(held.token)
  /\ held.token[pos] # Dot
  /\ verify_input("flipped", [held.token EXCEPT ![pos] = FlipBit(@, bit)])

verify_truncated(n) ==
  /\ held # NoToken
  /\ n < Len(held.token)
  /\ verify_input("truncated", SubSeq(held.token, 1, n))

verify_separators ==
  /\ held # NoToken
  /\ \E tok \in SeparatorInputs(held.token) : verify_input("separators", tok)

verify_forged ==
  /\ held # NoToken
  /\ \E k \in {SESSION_SECRET, <<98>>} :
       \E tok \in ForgedInputs(held, k) : verify_input("forged", tok)

verify_padded ==
  /\ held # NoToken
  /\ \E tok \in PaddedInputs(held.token) : verify_input("padded", tok)

\* characters of an issued token: 6 of payload, ".", 11 of signature
TokenLen == Len(Sign(<<0, 0, 0, 0>>, DefaultSecret))

NextVerify ==
  \/ Tick
  \/ respond
  \/ \E uid \in Subjects, rnd \in Nonces : login_submit(uid, rnd, TRUE)
  \/ \E pos \in 1..TokenLen, bit \in Bits : verify_flipped(pos, bit)
  \/ \E n \in 0..TokenLen : verify_truncated(n)
  \/ verify_separators
  \/ verify_forged
  \/ verify_padded

SpecVerify == Init /\ [][NextVerify]_vars

(* ------------------------------- dates -------------------------------- *)
\* purchased_at is 'YYYY-MM-DD' followed or not by a time of day.  The
\* queries compare it with a 'YYYY-MM-DD' text and take its first 10 or 7
\* characters, so only its date counts: the number YYYYMMDD.
YearOf(d) == d \div 10000
MonthOfYear(d) == (d \div 100) % 100
DayOf(d) == d % 100

\* purchased_at[:7] and substr(purchased_at, 1, 7): the number YYYYMM
MonthOf(d) == d \div 100

IsLeap(y) == (y % 4 = 0 /\ y % 100 # 0) \/ (y % 400 = 0)

\* int(strftime('%d', date(month || '-01', '+1 month', '-1 day')))
DaysInMonth(ym) ==
  LET m == ym % 100
  IN  IF m = 2 THEN (IF IsLeap(ym \div 100) THEN 29 ELSE 28)
      ELSE IF m \in {4, 6, 9, 11} THEN 30 ELSE 31

\* the month k months after January of year 0, as YYYYMM
MonthNumber(k) == (k \div 12) * 100 + (k % 12) + 1

\* date(d, '-n months'): n months back on the calendar; a day the month does
\* not have runs over into the next month (05-31 less 3 months is 03-03)
MonthsBefore(d, n) ==
  LET k == YearOf(d) * 12 + (MonthOfYear(d) - 1) - n
      over == DayOf(d) - DaysInMonth(MonthNumber(k))
  IN  IF over <= 0 THEN MonthNumber(k) * 100 + DayOf(d)
      ELSE MonthNumber(k + 1) * 100 + over

(* ------------------------------ detectors ----------------------------- *)
OverspendWindow == 3     \* date('now', '-3 months')
FixedWindow == 4         \* date('now', '-4 months')
FixedMonths == 3         \* len(rows) >= 3

NoCategory == ""         \* category NULL or ''
NoReceipt == 0           \* related_receipt_id NULL

RECURSIVE SumTotal(_, _)
\* SUM(total) over the rows ids; 0 stands for NULL (every caller reads NULL as 0 or as false)
SumTotal(rs, ids) ==
  IF ids = {} THEN 0
  ELSE LET i == CHOOSE j \in ids : TRUE IN rs[i].total + SumTotal(rs, ids \ {i})

RECURSIVE SumAmount(_, _)
\* SUM(amount) over the budget rows ids
SumAmount(bs, ids) ==
  IF ids = {} THEN 0
  ELSE LET i == CHOOSE j \in ids : TRUE IN bs[i].amount + SumAmount(bs, ids \ {i})

\* variant: SELECT SUM(amount) FROM budgets WHERE month = ?
TotalBudgetAnyUser(conn, user_id, month) ==
  SumAmount(conn.budgets, { i \in DOMAIN conn.budgets : conn.budgets[i].month = month })

\* SELECT SUM(amount) FROM budgets WHERE user_id = ? AND month = ?
TotalBudget(conn, user_id, month) ==
  SumAmount(conn.budgets, { i \in DOMAIN conn.budgets :
                              /\ conn.budgets[i].user_id = user_id
                              /\ conn.budgets[i].month = month })

\* variant: the INSERT is executed twice
InsertAlertTwice(conn, user_id, type, message, related) ==
  LET row == [user_id |-> user_id, type |-> type, message |-> message,
              related_receipt_id |-> related, is_read |-> FALSE]
  IN  [conn EXCEPT !.alerts = Append(Append(@, row), row)]

\* INSERT INTO alerts (user_id, type, message, related_receipt_id); is_read is the column default
InsertAlert(conn, user_id, type, message, related) ==
  [conn EXCEPT !.alerts = Append(@, [user_id |-> user_id, type |-> type, message |-> message,
                                     related_receipt_id |-> related, is_read |-> FALSE])]

\* "if avg": AVG(total) is NULL over no rows and 0.0 over rows that are all 0
HasMean(n, sum) == n > 0 /\ sum # 0

\* r["total"] > avg * 2.5, with avg = sum / n
OverMean(total, n, sum) == 2 * n * total > 5 * sum

check_overspend_alert(conn, user_id, receipt_id) ==
  LET rs == conn.receipts
      found == receipt_id \in DOMAIN rs /\ ~rs[receipt_id].is_deleted
      r == rs[receipt_id]
      rows == { i \in DOMAIN rs :
                  /\ rs[i].user_id = user_id
                  /\ rs[i].category = r.category
                  /\ rs[i].status = "CONFIRMED"
                  /\ ~rs[i].is_deleted
                  /\ rs[i].type = "expense"
                  /\ rs[i].purchased_at >= MonthsBefore(conn.today, OverspendWindow)
                  /\ i # receipt_id }
      n == Cardinality(rows)
      sum == SumTotal(rs, rows)
  IN  IF ~found \/ r.category = NoCategory THEN conn
      ELSE IF HasMean(n, sum) /\ OverMean(r.total, n, sum)
           THEN InsertAlert(conn, user_id, "anomaly", [category |-> r.category, total |-> r.total], receipt_id)
           ELSE conn

\* variant: at least 1.5 times the daily target
OverDailyInclusive(day_total, monthly_budget, days) == 2 * days * day_total >= 3 * monthly_budget

\* day_total > (monthly_budget / days_in_month) * 1.5
OverDaily(day_total, monthly_budget, days) == 2 * days * day_total > 3 * monthly_budget

\* variant: the day total is taken over the user's rows of the day whatever
\* their status
check_daily_overspend_alert_any_status(conn, user_id, receipt_id) ==
  LET rs == conn.receipts
      found == /\ receipt_id \in DOMAIN rs
               /\ ~rs[receipt_id].is_deleted
               /\ rs[receipt_id].status = "CONFIRMED"
               /\ rs[receipt_id].type = "expense"
      day == rs[receipt_id].purchased_at
      month == MonthOf(day)
      monthly_budget == TotalBudget(conn, user_id, month)
      days_in_month == DaysInMonth(month)
      day_total == SumTotal(rs, { i \in DOMAIN rs :
                                    /\ rs[i].user_id = user_id
                                    /\ ~rs[i].is_deleted
                                    /\ rs[i].type = "expense"
                                    /\ rs[i].purchased_at = day })
  IN  IF ~found THEN conn
      ELSE IF monthly_budget = 0 THEN conn
      ELSE IF OverDaily(day_total, monthly_budget, days_in_month)
           THEN InsertAlert(conn, user_id, "overspend",
                            [day |-> day, target |-> monthly_budget \div days_in_month,
                             total |-> day_total], receipt_id)
           ELSE conn

check_daily_overspend_alert(conn, user_id, receipt_id) ==
  LET rs == conn.receipts
      found == /\ receipt_id \in DOMAIN rs
               /\ ~rs[receipt_id].is_deleted
               /\ rs[receipt_id].status = "CONFIRMED"
               /\ rs[receipt_id].type = "expense"
      day == rs[receipt_id].purchased_at
      month == MonthOf(day)
      monthly_budget == TotalBudget(conn, user_id, month)
      days_in_month == DaysInMonth(month)
      day_total == SumTotal(rs, { i \in DOMAIN rs :
                                    /\ rs[i].user_id = user_id
                                    /\ rs[i].status = "CONFIRMED"
                                    /\ ~rs[i].is_deleted
                                    /\ rs[i].type = "expense"
                                    /\ rs[i].purchased_at = day })
  IN  IF ~found THEN conn
      ELSE IF monthly_budget = 0 THEN conn
      ELSE IF OverDaily(day_total, monthly_budget, days_in_month)
           THEN InsertAlert(conn, user_id, "overspend",
                            [day |-> day, target |-> monthly_budget \div days_in_month,
                             total |-> day_total], receipt_id)
           ELSE conn

\* total BETWEEN lower AND upper, with lower = total * 0.95 and upper = total * 1.05
InBand(t, total) == 100 * t >= 95 * total /\ 100 * t <= 105 * total

\* variant: two distinct months are enough
EnoughMonthsTwo(months) == Cardinality(months) >= FixedMonths - 1

\* len(rows) >= 3
EnoughMonths(months) == Cardinality(months) >= FixedMonths

\* SELECT DISTINCT substr(purchased_at, 1, 7) ... of check_fixed_cost_alert
MatchingMonths(conn, user_id, merchant, total) ==
  LET rs == conn.receipts
  IN  { MonthOf(rs[i].purchased_at) : i \in
          { j \in DOMAIN rs :
              /\ rs[j].user_id = user_id
              /\ rs[j].merchant = merchant
              /\ InBand(rs[j].total, total)
              /\ rs[j].status = "CONFIRMED"
              /\ ~rs[j].is_deleted
              /\ rs[j].type = "expense"
              /\ rs[j].purchased_at >= MonthsBefore(conn.today, FixedWindow) } }

\* variant: no alert when the alerts table already holds one for the transaction
check_fixed_cost_alert_once(conn, user_id, receipt_id) ==
  LET rs == conn.receipts
      found == /\ receipt_id \in DOMAIN rs
               /\ rs[receipt_id].user_id = user_id
               /\ rs[receipt_id].status = "CONFIRMED"
               /\ ~rs[receipt_id].is_deleted
               /\ rs[receipt_id].type = "expense"
      r == rs[receipt_id]
      told == \E i \in DOMAIN conn.alerts : conn.alerts[i].related_receipt_id = receipt_id
  IN  IF ~found \/ told THEN conn
      ELSE IF EnoughMonths(MatchingMonths(conn, user_id, r.merchant, r.total))
           THEN InsertAlert(conn, user_id, "fixed_detected", [merchant |-> r.merchant], receipt_id)
           ELSE conn

check_fixed_cost_alert(conn, user_id, receipt_id) ==
  LET rs == conn.receipts
      found == /\ receipt_id \in DOMAIN rs
               /\ rs[receipt_id].user_id = user_id
               /\ rs[receipt_id].status = "CONFIRMED"
               /\ ~rs[receipt_id].is_deleted
               /\ rs[receipt_id].type = "expense"
      r == rs[receipt_id]
  IN  IF ~found THEN conn
      ELSE IF EnoughMonths(MatchingMonths(conn, user_id, r.merchant, r.total))
           THEN InsertAlert(conn, user_id, "fixed_detected", [merchant |-> r.merchant], receipt_id)
           ELSE conn

\* variant: spending that reaches the budget counts
OverBudgetInclusive(spent, budget) == spent >= budget

\* spent > budget
OverBudget(spent, budget) == spent > budget

check_monthly_budget_alert(conn, user_id, receipt_id) ==
  LET rs == conn.receipts
      found == /\ receipt_id \in DOMAIN rs
               /\ rs[receipt_id].status = "CONFIRMED"
               /\ ~rs[receipt_id].is_deleted
               /\ rs[receipt_id].type = "expense"
      month == MonthOf(rs[receipt_id].purchased_at)
      budget == TotalBudget(conn, user_id, month)
      spent == SumTotal(rs, { i \in DOMAIN rs :
                                /\ rs[i].user_id = user_id
                                /\ rs[i].status = "CONFIRMED"
                                /\ ~rs[i].is_deleted
                                /\ rs[i].type = "expense"
                                /\ MonthOf(rs[i].purchased_at) = month })
  IN  IF ~found THEN conn
      ELSE IF budget = 0 THEN conn
      ELSE IF OverBudget(spent, budget)
           THEN InsertAlert(conn, user_id, "budget_exceeded", [month |-> month, spent |-> spent], NoReceipt)
           ELSE conn

(* ------------------- handlers of routers/receipts.py ------------------ *)
\* type is not among the columns the handlers write: a row keeps the default
\* of the column
DefaultType == "expense"

RECURSIVE calc_total(_)
\* sum(it.qty * it.price for it in payload.items)
calc_total(items) ==
  IF items = <<>> THEN 0
  ELSE Head(items).qty * Head(items).price + calc_total(Tail(items))

\* the statements of a handler that can raise a storage error, in order
ConfirmSteps == << "insert", "items", "overspend", "daily", "fixed", "draft", "commit" >>
UpdateSteps == << "select", "update", "delete_items", "items", "overspend", "daily", "fixed", "commit" >>
DeleteSteps == << "update", "commit" >>

\* the position of a step; "none" (no error) lies after the last step
StepIndex(steps, name) ==
  IF \E i \in 1..Len(steps) : steps[i] = name
  THEN CHOOSE i \in 1..Len(steps) : steps[i] = name
  ELSE Len(steps) + 1

\* the step ran to its end: it lies before the one that raised
Ran(steps, failAt, step) == StepIndex(steps, step) < StepIndex(steps, failAt)

\* variant: an error of a detector is logged and dropped as well
PropagatesWriteErrors(failAt) == failAt \notin {"none", "draft", "overspend", "daily", "fixed"}

\* the error raised at failAt leaves the "with" block; the one of
\* _delete_draft is caught, logged and dropped (receipts.py:517-521)
Propagates(failAt) == failAt \notin {"none", "draft"}

\* variant: every statement is committed as it runs (autocommit)
get_conn_autocommit(db, work, raised) == work

\* with get_conn() as conn: commit on a normal exit, rollback on an exception
get_conn(db, work, raised) == IF raised THEN db ELSE work

InsertReceipt(conn, user_id, payload) ==
  [conn EXCEPT !.receipts = Append(@,
     [user_id |-> user_id, merchant |-> payload.merchant, total |-> calc_total(payload.items),
      purchased_at |-> payload.purchased_at, status |-> payload.status,
      type |-> DefaultType, category |-> payload.category, is_deleted |-> FALSE])]

UpdateReceipt(conn, receipt_id, payload) ==
  [conn EXCEPT !.receipts[receipt_id] =
     [@ EXCEPT !.merchant = payload.merchant, !.total = calc_total(payload.items),
               !.purchased_at = payload.purchased_at, !.status = payload.status,
               !.category = payload.category]]

InsertItems(conn, receipt_id, items) ==
  [conn EXCEPT !.receipt_items =
     @ \o [i \in 1..Len(items) |->
             [receipt_id |-> receipt_id, qty |-> items[i].qty, price |-> items[i].price]]]

\* DELETE FROM receipt_items WHERE receipt_id = ?
DeleteItems(conn, receipt_id) ==
  [conn EXCEPT !.receipt_items = SelectSeq(@, LAMBDA it : it.receipt_id # receipt_id)]

\* the detector calls of confirm_receipt and update_receipt, up to the one
\* that raises; called: the detectors that returned
RunDetectors(conn, user_id, receipt_id, steps, failAt) ==
  LET c1 == IF Ran(steps, failAt, "overspend")
            THEN check_overspend_alert(conn, user_id, receipt_id) ELSE conn
      c2 == IF Ran(steps, failAt, "daily")
            THEN check_daily_overspend_alert(c1, user_id, receipt_id) ELSE c1
      c3 == IF Ran(steps, failAt, "fixed")
            THEN check_fixed_cost_alert(c2, user_id, receipt_id) ELSE c2
  IN  [conn |-> c3,
       called |-> SelectSeq(<< "overspend", "daily", "fixed" >>,
                            LAMBDA d : Ran(steps, failAt, d))]

\* the body of confirm_receipt inside "with get_conn() as conn"
ConfirmBody(db, user_id, payload, failAt) ==
  LET receipt_id == Len(db.receipts) + 1
      c1 == IF Ran(ConfirmSteps, failAt, "insert") THEN InsertReceipt(db, user_id, payload) ELSE db
      c2 == IF Ran(ConfirmSteps, failAt, "items") THEN InsertItems(c1, receipt_id, payload.items) ELSE c1
      det == RunDetectors(c2, user_id, receipt_id, ConfirmSteps, failAt)
  IN  [work |-> det.conn, called |-> det.called, receipt_id |-> receipt_id, alert_id |-> 0,
       raised |-> Propagates(failAt)]

\* the body of update_receipt inside "with get_conn() as conn"
UpdateBody(db, user_id, receipt_id, payload, failAt) ==
  LET missing == \/ receipt_id \notin DOMAIN db.receipts
                 \/ db.receipts[receipt_id].is_deleted
                 \/ db.receipts[receipt_id].user_id # user_id
      c1 == IF Ran(UpdateSteps, failAt, "update") THEN UpdateReceipt(db, receipt_id, payload) ELSE db
      c2 == IF Ran(UpdateSteps, failAt, "delete_items") THEN DeleteItems(c1, receipt_id) ELSE c1
      c3 == IF Ran(UpdateSteps, failAt, "items") THEN InsertItems(c2, receipt_id, payload.items) ELSE c2
      det == RunDetectors(c3, user_id, receipt_id, UpdateSteps, failAt)
  IN  IF failAt # "select" /\ missing
      THEN [work |-> db, called |-> <<>>, receipt_id |-> receipt_id, alert_id |-> 0, raised |-> TRUE,
            status |-> "not_found"]
      ELSE [work |-> det.conn, called |-> det.called, receipt_id |-> receipt_id, alert_id |-> 0,
            raised |-> Propagates(failAt),
            status |-> IF Propagates(failAt) THEN "error" ELSE "ok"]

\* the body of soft_delete_receipt inside "with get_conn() as conn"
DeleteBody(db, user_id, receipt_id, failAt) ==
  LET hit == /\ receipt_id \in DOMAIN db.receipts
             /\ db.receipts[receipt_id].user_id = user_id
             /\ ~db.receipts[receipt_id].is_deleted
      c1 == IF hit /\ Ran(DeleteSteps, failAt, "update")
            THEN [db EXCEPT !.receipts[receipt_id].is_deleted = TRUE] ELSE db
  IN  IF failAt # "update" /\ ~hit
      THEN [work |-> db, called |-> <<>>, receipt_id |-> receipt_id, alert_id |-> 0, raised |-> TRUE,
            status |-> "not_found"]
      ELSE [work |-> c1, called |-> <<>>, receipt_id |-> receipt_id, alert_id |-> 0,
            raised |-> Propagates(failAt),
            status |-> IF Propagates(failAt) THEN "error" ELSE "ok"]

(* ----------------------- requests on the ledger ----------------------- *)
MaxRequests == 2        \* ledger requests in one behaviour

LedgerUsers == {1, 2}
Today == 20251104

Item(qty, price) == [qty |-> qty, price |-> price]

\* ReceiptConfirmIn / ReceiptUpdateIn: the fields the handlers read, and type
BasePayload ==
  [merchant |-> "netflix", purchased_at |-> Today, items |-> << Item(1, 21) >>,
   status |-> "CONFIRMED", type |-> "expense", category |-> "food", draft_id |-> FALSE]

Payloads ==
  { BasePayload,
    [BasePayload EXCEPT !.items = << Item(2, 10), Item(1, 0) >>],
    [BasePayload EXCEPT !.status = "PENDING"],
    [BasePayload EXCEPT !.category = NoCategory],
    [BasePayload EXCEPT !.type = "income"],
    [BasePayload EXCEPT !.draft_id = TRUE] }

\* a request: its payload and the statement that raises a storage error.
\* Every payload without error, and the base payload with each error.
Requests(steps) ==
  { [payload |-> p, failAt |-> "none"] : p \in Payloads }
  \cup { [payload |-> BasePayload, failAt |-> steps[i]] : i \in 1..Len(steps) }
  \cup { [payload |-> [BasePayload EXCEPT !.draft_id = TRUE], failAt |-> "draft"] }

Db == Conn(receipts, receipt_items, budgets, alerts, today)

Idle == result.op = "none" /\ result.seq < MaxRequests

\* the committed tables and the record of the request
Finish(op, user_id, failAt, out, status) ==
  LET committed == get_conn(Db, out.work, out.raised)
  IN  /\ receipts' = committed.receipts
      /\ receipt_items' = committed.receipt_items
      /\ alerts' = committed.alerts
      /\ result' = [op |-> op, user_id |-> user_id, receipt_id |-> out.receipt_id,
                    alert_id |-> out.alert_id, failAt |-> failAt, status |-> status, detectors |-> out.called,
                    before |-> Db, work |-> out.work, seq |-> result.seq + 1]
      /\ UNCHANGED << budgets, today, session, conns, lock >>

\* POST /receipts/confirm
confirm_receipt(user_id, payload, failAt) ==
  LET out == ConfirmBody(Db, user_id, payload, failAt)
  IN  /\ Idle
      /\ payload.items # <<>>
      /\ failAt = "draft" => payload.draft_id
      \* _delete_draft has committed: the commit of get_conn has nothing to write
      /\ failAt = "commit" => ~payload.draft_id
      /\ Finish("confirm", user_id, failAt, out, IF out.raised THEN "error" ELSE "ok")

\* POST /receipts/{receipt_id}/update
update_receipt(user_id, receipt_id, payload, failAt) ==
  LET out == UpdateBody(Db, user_id, receipt_id, payload, failAt)
  IN  /\ Idle
      /\ payload.items # <<>>
      /\ failAt # "draft"
      \* a request answered 404 has run no statement after the SELECT
      /\ out.status = "not_found" => failAt = "none"
      /\ Finish("update", user_id, failAt, out, out.status)

\* POST /receipts/{receipt_id}/delete
soft_delete_receipt(user_id, receipt_id, failAt) ==
  LET out == DeleteBody(Db, user_id, receipt_id, failAt)
  IN  /\ Idle
      /\ out.status = "not_found" => failAt = "none"
      /\ Finish("delete", user_id, failAt, out, out.status)

\* the response is sent
ledger_respond ==
  /\ result.op # "none"
  /\ result' = [NoResult EXCEPT !.seq = result.seq]
  /\ UNCHANGED << receipts, receipt_items, budgets, alerts, today, session, conns, lock >>

Receipt(user_id, merchant, total, purchased_at, category) ==
  [user_id |-> user_id, merchant |-> merchant, total |-> total, purchased_at |-> purchased_at,
   status |-> "CONFIRMED", type |-> DefaultType, category |-> category, is_deleted |-> FALSE]

\* ledgers earlier requests have left: an empty one, and one with two
\* monthly payments, a small purchase and a row of the other user
SeedReceipts ==
  { <<>>,
    << Receipt(1, "netflix", 20, 20250910, NoCategory),
       Receipt(1, "netflix", 20, 20251010, NoCategory),
       Receipt(1, "mart", 8, 20251101, "food"),
       Receipt(2, "netflix", 21, Today, "food") >> }

Budget(user_id, month, amount) == [user_id |-> user_id, month |-> month, amount |-> amount]

SeedBudgets ==
  { <<>>,
    << Budget(1, 202511, 30) >>,
    << Budget(1, 202511, 10), Budget(1, 202511, 10), Budget(2, 202511, 900) >> }

SessionIdle ==
  /\ env = Configured
  /\ SESSION_SECRET = LoadSecret(env)
  /\ SESSION_TTL_SECONDS = MaxTTL
  /\ clock = Res
  /\ cookie = <<>>
  /\ latest = NoToken
  /\ held = NoToken
  /\ request = NoRequest

InitLedger ==
  /\ SessionIdle
  /\ receipts \in SeedReceipts
  /\ receipt_items = [i \in 1..Len(receipts) |->
                        [receipt_id |-> i, qty |-> 1, price |-> receipts[i].total]]
  /\ budgets \in SeedBudgets
  /\ alerts = <<>>
  /\ today = Today
  /\ result = NoResult
  /\ conns = <<>>
  /\ lock = 0

NextLedger ==
  \/ ledger_respond
  \/ \E user_id \in LedgerUsers, rq \in Requests(ConfirmSteps) :
       confirm_receipt(user_id, rq.payload, rq.failAt)
  \/ \E user_id \in LedgerUsers, receipt_id \in 1..(Len(receipts) + 1),
        rq \in Requests(UpdateSteps) :
       update_receipt(user_id, receipt_id, rq.payload, rq.failAt)
  \/ \E user_id \in LedgerUsers, receipt_id \in 1..(Len(receipts) + 1),
        failAt \in {"none", "update", "commit"} :
       soft_delete_receipt(user_id, receipt_id, failAt)

SpecLedger == InitLedger /\ [][NextLedger]_vars

(* -------------------- handlers of routers/alerts.py ------------------- *)
ReadSteps == << "update", "commit" >>

\* variant: SET is_read = NOT is_read
ToggleRead(conn, ids) ==
  [conn EXCEPT !.alerts = [i \in DOMAIN @ |-> IF i \in ids THEN [@[i] EXCEPT !.is_read = ~@]
                                                            ELSE @[i]]]

\* UPDATE alerts SET is_read = 1 WHERE ..., ids being the rows of the WHERE
MarkRead(conn, ids) ==
  [conn EXCEPT !.alerts = [i \in DOMAIN @ |-> IF i \in ids THEN [@[i] EXCEPT !.is_read = TRUE]
                                                            ELSE @[i]]]

\* variant: WHERE id = ?
OwnAlertAnyUser(conn, user_id, alert_id) ==
  { i \in DOMAIN conn.alerts : i = alert_id }

\* WHERE id = ? AND user_id = ?
OwnAlert(conn, user_id, alert_id) ==
  { i \in DOMAIN conn.alerts : i = alert_id /\ conn.alerts[i].user_id = user_id }

\* WHERE user_id = ? AND is_read = 0
UnreadAlerts(conn, user_id) ==
  { i \in DOMAIN conn.alerts : conn.alerts[i].user_id = user_id /\ ~conn.alerts[i].is_read }

\* SELECT COUNT(*) FROM alerts WHERE user_id = ? AND is_read = 0
unread_alert_count(conn, user_id) == Cardinality(UnreadAlerts(conn, user_id))

\* the body of mark_alert_read inside "with get_conn() as conn"; the 404 is
\* raised on cur.rowcount == 0
ReadBody(db, user_id, alert_id, failAt) ==
  LET ids == OwnAlert(db, user_id, alert_id)
      c1 == IF Ran(ReadSteps, failAt, "update") THEN MarkRead(db, ids) ELSE db
  IN  IF failAt # "update" /\ ids = {}
      THEN [work |-> db, called |-> <<>>, receipt_id |-> 0, alert_id |-> alert_id,
            raised |-> TRUE, status |-> "not_found"]
      ELSE [work |-> c1, called |-> <<>>, receipt_id |-> 0, alert_id |-> alert_id,
            raised |-> Propagates(failAt),
            status |-> IF Propagates(failAt) THEN "error" ELSE "ok"]

\* the body of mark_all_alerts_read inside "with get_conn() as conn"
ReadAllBody(db, user_id, failAt) ==
  LET c1 == IF Ran(ReadSteps, failAt, "update")
            THEN MarkRead(db, UnreadAlerts(db, user_id)) ELSE db
  IN  [work |-> c1, called |-> <<>>, receipt_id |-> 0, alert_id |-> 0,
       raised |-> Propagates(failAt),
       status |-> IF Propagates(failAt) THEN "error" ELSE "ok"]

\* POST /users/alerts/{alert_id}/read
mark_alert_read(user_id, alert_id, failAt) ==
  LET out == ReadBody(Db, user_id, alert_id, failAt)
  IN  /\ Idle
      /\ out.status = "not_found" => failAt = "none"
      /\ Finish("read", user_id, failAt, out, out.status)

\* POST /users/alerts/read-all
mark_all_alerts_read(user_id, failAt) ==
  LET out == ReadAllBody(Db, user_id, failAt)
  IN  /\ Idle
      /\ Finish("read_all", user_id, failAt, out, out.status)

Alert(user_id, type, message, related, is_read) ==
  [user_id |-> user_id, type |-> type, message |-> message,
   related_receipt_id |-> related, is_read |-> is_read]

\* the ledger with receipts, SeedReceipts without the empty one
SeededReceipts == CHOOSE rs \in SeedReceipts : rs # <<>>

\* alerts earlier requests have left on SeededReceipts: none, or an unread
\* one of each user and one user 1 has read
SeedAlerts ==
  { <<>>,
    << Alert(1, "anomaly", [category |-> "food", total |-> 8], 3, FALSE),
       Alert(2, "overspend", [day |-> Today, target |-> 30, total |-> 21], 4, FALSE),
       Alert(1, "fixed_detected", [merchant |-> "netflix"], 2, TRUE) >> }

InitAlerts ==
  /\ SessionIdle
  /\ receipts = SeededReceipts
  /\ receipt_items = [i \in 1..Len(receipts) |->
                        [receipt_id |-> i, qty |-> 1, price |-> receipts[i].total]]
  /\ budgets = << Budget(1, 202511, 30) >>
  /\ alerts \in SeedAlerts
  /\ today = Today
  /\ result = NoResult
  /\ conns = <<>>
  /\ lock = 0

NextAlerts ==
  \/ NextLedger
  \/ \E user_id \in LedgerUsers, alert_id \in 1..(Len(alerts) + 1),
        failAt \in {"none", "update", "commit"} :
       mark_alert_read(user_id, alert_id, failAt)
  \/ \E user_id \in LedgerUsers, failAt \in {"none", "update", "commit"} :
       mark_all_alerts_read(user_id, failAt)

SpecAlerts == InitAlerts /\ [][NextAlerts]_vars

(* ------------- two requests side by side, statement by statement ------ *)
\* Each request has its own connection (util.py:17).  The first INSERT,
\* UPDATE or DELETE of a connection opens its transaction and takes SQLite's
\* write lock, which it holds until commit or rollback; what it writes is
\* in its work tables until then.  A SELECT outside a transaction reads the
\* committed tables.

\* variant: no write lock
NeverLocked(holder, i) == FALSE

\* another connection holds the write lock
Locked(holder, i) == holder \notin {0, i}

\* UPDATE receipts SET ... WHERE id = ? AND is_deleted = 0
UpdateReceiptWhere(conn, receipt_id, payload) ==
  IF receipt_id \in DOMAIN conn.receipts /\ ~conn.receipts[receipt_id].is_deleted
  THEN UpdateReceipt(conn, receipt_id, payload)
  ELSE conn

\* the statement after pc in the handler
NextStep(steps, pc) ==
  IF StepIndex(steps, pc) < Len(steps) THEN steps[StepIndex(steps, pc) + 1] ELSE "done"

StepsOf(op) ==
  CASE op = "confirm" -> ConfirmSteps
    [] op = "update" -> UpdateSteps
    [] op = "delete" -> DeleteSteps

\* a request that has not run a statement yet
Connection(op, user_id, receipt_id, payload) ==
  [op |-> op, user_id |-> user_id, receipt_id |-> receipt_id, payload |-> payload,
   pc |-> Head(StepsOf(op)), at |-> NoTables, work |-> NoTables, status |-> "none", order |-> 0]

\* the connection i moves to the statement after pc with the work tables w
Advance(i, w) ==
  conns' = [conns EXCEPT ![i].pc = NextStep(StepsOf(conns[i].op), @), ![i].work = w]

\* the connection i opens its transaction with the work tables w
Begin(i, receipt_id, w) ==
  /\ ~Locked(lock, i)
  /\ lock' = i
  /\ conns' = [conns EXCEPT ![i].pc = NextStep(StepsOf(conns[i].op), @), ![i].at = Db,
                            ![i].work = w, ![i].receipt_id = receipt_id]

\* the request of connection i ends without a commit
Fails(i, status) ==
  conns' = [conns EXCEPT ![i].pc = "done", ![i].status = status]

Tables == << receipts, receipt_items, budgets, alerts, today >>

\* confirm_receipt: INSERT INTO receipts
race_insert(i) ==
  LET c == conns[i]
  IN  /\ c.op = "confirm" /\ c.pc = "insert"
      /\ Begin(i, Len(receipts) + 1, InsertReceipt(Db, c.user_id, c.payload))
      /\ UNCHANGED << Tables, result, session >>

\* update_receipt: SELECT id, user_id, is_deleted and the 404
race_select(i) ==
  LET c == conns[i]
      missing == \/ c.receipt_id \notin DOMAIN receipts
                 \/ receipts[c.receipt_id].is_deleted
                 \/ receipts[c.receipt_id].user_id # c.user_id
  IN  /\ c.op = "update" /\ c.pc = "select"
      /\ IF missing THEN Fails(i, "not_found") ELSE Advance(i, c.work)
      /\ UNCHANGED << Tables, result, session, lock >>

\* update_receipt: UPDATE receipts SET ... WHERE id = ? AND is_deleted = 0
race_update(i) ==
  LET c == conns[i]
  IN  /\ c.op = "update" /\ c.pc = "update"
      /\ Begin(i, c.receipt_id, UpdateReceiptWhere(Db, c.receipt_id, c.payload))
      /\ UNCHANGED << Tables, result, session >>

\* soft_delete_receipt: UPDATE receipts SET is_deleted = 1 and the 404 on
\* rowcount 0, which rolls the transaction back
race_soft_delete(i) ==
  LET c == conns[i]
      out == DeleteBody(Db, c.user_id, c.receipt_id, "none")
  IN  /\ c.op = "delete" /\ c.pc = "update"
      /\ ~Locked(lock, i)
      /\ IF out.status = "not_found"
         THEN Fails(i, "not_found") /\ UNCHANGED lock
         ELSE Begin(i, c.receipt_id, out.work)
      /\ UNCHANGED << Tables, result, session >>

\* DELETE FROM receipt_items and INSERT INTO receipt_items
race_items(i) ==
  LET c == conns[i]
  IN  /\ c.op \in {"confirm", "update"}
      /\ \/ c.pc = "delete_items" /\ Advance(i, DeleteItems(c.work, c.receipt_id))
         \/ c.pc = "items" /\ Advance(i, InsertItems(c.work, c.receipt_id, c.payload.items))
      /\ UNCHANGED << Tables, result, session, lock >>

\* the three detector calls, on the connection of the handler
race_detector(i) ==
  LET c == conns[i]
      out == CASE c.pc = "overspend" -> check_overspend_alert(c.work, c.user_id, c.receipt_id)
               [] c.pc = "daily" -> check_daily_overspend_alert(c.work, c.user_id, c.receipt_id)
               [] c.pc = "fixed" -> check_fixed_cost_alert(c.work, c.user_id, c.receipt_id)
  IN  /\ c.pc \in {"overspend", "daily", "fixed"}
      /\ Advance(i, out)
      /\ UNCHANGED << Tables, result, session, lock >>

\* confirm_receipt: if payload.draft_id
race_draft(i) ==
  LET c == conns[i]
  IN  /\ c.pc = "draft" /\ ~c.payload.draft_id
      /\ Advance(i, c.work)
      /\ UNCHANGED << Tables, result, session, lock >>

\* get_conn: conn.commit() on leaving the with block
race_commit(i) ==
  LET c == conns[i]
      committed == Cardinality({ j \in DOMAIN conns : conns[j].order > 0 })
  IN  /\ c.pc = "commit"
      /\ receipts' = c.work.receipts
      /\ receipt_items' = c.work.receipt_items
      /\ alerts' = c.work.alerts
      /\ lock' = 0
      /\ conns' = [conns EXCEPT ![i].pc = "done", ![i].status = "ok", ![i].order = committed + 1]
      /\ UNCHANGED << budgets, today, result, session >>

\* sqlite3.OperationalError "database is locked": the write lock stayed with
\* another connection for the whole busy timeout of sqlite3.connect
race_busy(i) ==
  LET c == conns[i]
  IN  /\ \/ c.op = "confirm" /\ c.pc = "insert"
         \/ c.op \in {"update", "delete"} /\ c.pc = "update"
      /\ Locked(lock, i)
      /\ Fails(i, "error")
      /\ UNCHANGED << Tables, result, session, lock >>

\* a small purchase: with the row of the day it stays under the threshold
SmallPayload == [BasePayload EXCEPT !.items = << Item(1, 1) >>]

\* requests of user 1: confirm a purchase of today, update the transaction 1
\* or soft-delete it
RaceRequests ==
  { Connection("confirm", 1, 0, p) : p \in {BasePayload, SmallPayload} }
  \cup { Connection("update", 1, 1, p) : p \in {BasePayload, SmallPayload} }
  \cup { Connection("delete", 1, 1, BasePayload) }

\* one transaction of 8 today; 1.5 x 600 / 30 = 30 is the day's threshold
InitRace ==
  /\ SessionIdle
  /\ receipts = << Receipt(1, "mart", 8, Today, "food") >>
  /\ receipt_items = << [receipt_id |-> 1, qty |-> 1, price |-> 8] >>
  /\ budgets = << Budget(1, 202511, 600) >>
  /\ alerts = <<>>
  /\ today = Today
  /\ result = NoResult
  /\ conns \in { << a, b >> : a \in RaceRequests, b \in RaceRequests }
  /\ lock = 0

NextRace ==
  \/ \E i \in DOMAIN conns : race_insert(i)
  \/ \E i \in DOMAIN conns : race_select(i)
  \/ \E i \in DOMAIN conns : race_update(i)
  \/ \E i \in DOMAIN conns : race_soft_delete(i)
  \/ \E i \in DOMAIN conns : race_items(i)
  \/ \E i \in DOMAIN conns : race_detector(i)
  \/ \E i \in DOMAIN conns : race_draft(i)
  \/ \E i \in DOMAIN conns : race_commit(i)
  \/ \E i \in DOMAIN conns : race_busy(i)

SpecRace == InitRace /\ [][NextRace]_vars

(* --------------- each detector on a ledger of three rows -------------- *)
\* a CONFIRMED expense row of user 1 at "netflix" in category "food"
PlainRow(total, purchased_at) == Receipt(1, "netflix", total, purchased_at, "food")

\* the rows that differ from a plain one in one column
Variants(r) ==
  { r,
    [r EXCEPT !.user_id = 2],
    [r EXCEPT !.merchant = "mart"],
    [r EXCEPT !.category = NoCategory],
    [r EXCEPT !.category = "fun"],
    [r EXCEPT !.status = "PENDING"],
    [r EXCEPT !.type = "income"],
    [r EXCEPT !.is_deleted = TRUE] }

\* purchase dates around date('now', '-4 months') = 2025-07-04 and
\* date('now', '-3 months') = 2025-08-04, today, and a date yet to come
HistoryDates == { 20250703, 20250704, 20250803, 20250804, 20251004, Today, 20251204 }

\* a ledger for the history queries: any variant row, a plain row, and a
\* third row to call the detectors on; no budget
HistoryInputs ==
  { [receipts |-> << h1, h2, t >>, budgets |-> <<>>] :
      h1 \in UNION { Variants(PlainRow(total, d)) : total \in {0, 19, 20, 21, 22}, d \in HistoryDates },
      h2 \in { PlainRow(total, d) : total \in {0, 20}, d \in {20250804, 20250910, Today} },
      t \in UNION { { x \in Variants(PlainRow(total, d)) : x.user_id = 1 /\ x.merchant = "netflix" /\ x.category # "fun" } :
                      total \in {20, 50, 51}, d \in {20250703, Today} } }

\* budgets of 2025-11 (30 days): 40 and 800 in one entry or in two, and
\* entries of another month, of another user, and of amount 0
BudgetInputs ==
  { <<>>,
    << Budget(1, 202511, 40) >>,
    << Budget(1, 202511, 20), Budget(1, 202511, 20) >>,
    << Budget(1, 202511, 800) >>,
    << Budget(1, 202511, 400), Budget(2, 202511, 1), Budget(1, 202511, 400) >>,
    << Budget(1, 202510, 40), Budget(2, 202511, 40) >>,
    << Budget(1, 202511, 0) >> }

\* a ledger for the budget queries: rows of the same day, the next day and
\* the month before
BudgetedInputs ==
  { [receipts |-> << h1, h2, t >>, budgets |-> bs] :
      h1 \in UNION { Variants(PlainRow(total, d)) : total \in {20, 21}, d \in {20251004, Today, 20251105} },
      h2 \in { PlainRow(0, Today), PlainRow(20, Today) },
      t \in { x \in Variants(PlainRow(20, Today)) : x.user_id = 1 /\ x.merchant = "netflix" /\ x.category # "fun" },
      bs \in BudgetInputs }

LedgerInputs == HistoryInputs \cup BudgetedInputs

InitDetect ==
  /\ SessionIdle
  /\ \E l \in LedgerInputs : receipts = l.receipts /\ budgets = l.budgets
  /\ receipt_items = <<>>
  /\ alerts = <<>>
  /\ today = Today
  /\ result = NoResult
  /\ conns = <<>>
  /\ lock = 0

\* one call of a detector on the transaction receipt_id of its owner, as the
\* handlers call it; out is the connection's tables after the call
Called(name, receipt_id, out) ==
  /\ result.op = "none"
  /\ alerts' = out.alerts
  /\ result' = [op |-> name, user_id |-> receipts[receipt_id].user_id, receipt_id |-> receipt_id,
                alert_id |-> 0, failAt |-> "none", status |-> "ok", detectors |-> << name >>,
                before |-> Db, work |-> out, seq |-> 1]
  /\ UNCHANGED << receipts, receipt_items, budgets, today, session, conns, lock >>

call_overspend(receipt_id) ==
  Called("overspend", receipt_id,
         check_overspend_alert(Db, receipts[receipt_id].user_id, receipt_id))

call_daily(receipt_id) ==
  Called("daily", receipt_id,
         check_daily_overspend_alert(Db, receipts[receipt_id].user_id, receipt_id))

call_fixed(receipt_id) ==
  Called("fixed", receipt_id,
         check_fixed_cost_alert(Db, receipts[receipt_id].user_id, receipt_id))

call_monthly(receipt_id) ==
  Called("monthly", receipt_id,
         check_monthly_budget_alert(Db, receipts[receipt_id].user_id, receipt_id))

NextDetect ==
  \/ \E receipt_id \in DOMAIN receipts : call_overspend(receipt_id)
  \/ \E receipt_id \in DOMAIN receipts : call_daily(receipt_id)
  \/ \E receipt_id \in DOMAIN receipts : call_fixed(receipt_id)
  \/ \E receipt_id \in DOMAIN receipts : call_monthly(receipt_id)

SpecDetect == InitDetect /\ [][NextDetect]_vars

(* ============================== claims ================================ *)
Issued == { r \in {held, latest} : r # NoToken }
ExpOf(r) == r.iat + r.ttl
VerifyNow(r) == verify_session_token(r.token, SESSION_SECRET, Now)
DotCount(tok) == Cardinality({ i \in 1..Len(tok) : tok[i] = Dot })

\* C1: round trip.  With a positive TTL, a token issued for a subject at
\* second iat is accepted at every clock reading now with iat <= now < iat + TTL
\* under the same secret, and the accepted payload's uid is that subject.
C1_RoundTrip ==
  \A r \in Issued :
    (r.ttl > 0 /\ r.secret = SESSION_SECRET /\ r.iat <= Now /\ Now < r.iat + r.ttl)
      => (VerifyNow(r).status = "payload" /\ VerifyNow(r).payload.uid = r.uid)

C1_Witness ==
  /\ request.kind = "held" /\ request.token = held.token
  /\ held.ttl > 0 /\ Now > held.iat /\ Now < held.iat + held.ttl
  /\ request.status = "payload" /\ request.user_id = held.uid

C3_TamperEvidence ==
  (/\ request.kind = "flipped"
   /\ held.secret = SESSION_SECRET /\ Now <= ExpOf(held)
   /\ VerifyNow(held).status = "payload")
    => request.status = "none"

\* C4: uniform, exception-free rejection.  Whatever the input string, the
\* call returns either None (one and the same value, nothing attached) or a
\* payload, never an exception; it returns a payload only when the token has
\* exactly one separator, the decoded signature is the HMAC of the decoded
\* payload, and exp is an integer not before now; otherwise None.
ChecksPass(tok, secretStr, now) ==
  /\ DotCount(tok) = 1
  /\ LET p == b64url_decode(SubSeq(tok, 1, (CHOOSE i \in 1..Len(tok) : tok[i] = Dot) - 1))
         g == b64url_decode(SubSeq(tok, (CHOOSE i \in 1..Len(tok) : tok[i] = Dot) + 1, Len(tok)))
     IN  /\ p.ok /\ g.ok
         /\ g.bytes = HmacDigest(secretStr, p.bytes)
         /\ Len(p.bytes) = 4
         /\ p.bytes[1] < NonInt
         /\ p.bytes[1] >= now

C4_UniformRejection ==
  request.kind # "none" =>
    /\ request.status \in {"none", "payload"}
    /\ request.status = "none" => (request.payload = NoDoc /\ request.user_id = NoneVal)
    /\ request.status = "payload" <=> ChecksPass(request.token, SESSION_SECRET, request.now)

\* an exception inside the call (here: the signed document is no JSON) ends as None
C4_Witness ==
  /\ request.kind = "forged" /\ request.stage = "json" /\ request.status = "none"

\* C5: missing key fails closed.  No token is issued while SESSION_SECRET is
\* absent from the environment, and none is accepted then.
C5_MissingKeyFailsClosed ==
  /\ \A r \in Issued : r.configured
  /\ request.status = "payload" => env.isSet

\* C6: key rotation revokes everything.  Once the secret differs from the
\* one a token was issued under, the token is rejected, whatever its expiry.
C6_RotationRevokes ==
  \A r \in Issued : r.secret # SESSION_SECRET => VerifyNow(r).status = "none"

C6_Witness ==
  /\ request.kind = "held" /\ request.token = held.token
  /\ held.secret # SESSION_SECRET /\ Now <= ExpOf(held)
  /\ request.status = "none" /\ request.stage = "signature"

\* C7: no individual revocation.  With the secret unchanged, a request that
\* carries an issued token at a clock reading up to its expiry is
\* authenticated as the token's subject, whatever logins and logouts came
\* after the token was issued.
C7_NoRevocation ==
  \A r \in Issued :
    (request.kind \in {"held", "cookie"} /\ request.token = r.token
     /\ r.secret = SESSION_SECRET /\ request.now <= ExpOf(r))
      => request.user_id = r.uid

\* the kept token is used after a later login and a logout
C7_Witness ==
  /\ request.kind = "held" /\ request.token = held.token
  /\ latest # NoToken /\ ~latest.kept /\ cookie = <<>>
  /\ request.user_id = held.uid

\* two tokens from two different calls, same subject, same clock second
SameSubjectSameSecond ==
  /\ held # NoToken /\ latest # NoToken /\ ~latest.kept
  /\ held.uid = latest.uid /\ held.iat = latest.iat
  /\ held.secret = latest.secret /\ held.ttl = latest.ttl

\* C8 as stated: any two tokens issued for the same subject within the same
\* clock second are different strings.
C8_NonceUniqueness == SameSubjectSameSecond => held.token # latest.token

\* C8 amended: two such tokens are different strings exactly when their
\* nonces differ.
C8_DistinctIffNoncesDiffer ==
  SameSubjectSameSecond => (held.token # latest.token <=> held.rnd # latest.rnd)

C8_Witness ==
  SameSubjectSameSecond /\ held.rnd # latest.rnd /\ held.token # latest.token

\* C9: separator count.  A token without exactly one "." is rejected before
\* anything is decoded or compared.
C9_SeparatorCount ==
  (request.kind # "none" /\ DotCount(request.token) # 1)
    => (request.status = "none" /\ request.stage \in {"empty", "split"})

C9_Witness ==
  /\ request.kind = "separators" /\ DotCount(request.token) = 2
  /\ request.status = "none" /\ request.stage = "split"

\* C10: expiry boundary.  A correctly signed issued token is accepted at the
\* clock reading now = expiresAt, and a rejection for expiry happens only at
\* now > expiresAt.
C10_ExpiryBoundary ==
  \A r \in Issued :
    /\ (r.secret = SESSION_SECRET /\ Now = ExpOf(r)) => VerifyNow(r).status = "payload"
    /\ (request.token = r.token /\ request.stage = "exp") => request.now > ExpOf(r)

C10_Witness ==
  /\ request.kind = "held" /\ request.token = held.token
  /\ held.ttl > 0 /\ request.now = ExpOf(held)
  /\ request.status = "payload"

\* what an issued token carries: its payload part, decoded
Carried(r) == Loads(b64url_decode(PayloadPart(r.token)).bytes).doc

\* C11: every issued token carries issuedAt = now and expiresAt = now + TTL
\* with expiresAt > issuedAt, whatever TTL SESSION_TTL_SECONDS was loaded with.
C11_ExpiresAfterIssued ==
  \A r \in Issued :
    /\ Carried(r).iat = r.iat
    /\ Carried(r).exp = r.iat + r.ttl
    /\ Carried(r).exp > Carried(r).iat

(* ------------------------ claims on the ledger ------------------------ *)
\* the alert rows the last request committed
NewAlerts == SubSeq(alerts, Len(result.before.alerts) + 1, Len(alerts))
NewKinds == { NewAlerts[i].type : i \in 1..Len(NewAlerts) }

Qualifies(r) == r.status = "CONFIRMED" /\ ~r.is_deleted /\ r.type = "expense"

\* the user's CONFIRMED, non-deleted expense total of a month, in the tables rs
MonthSpent(rs, user_id, month) ==
  SumTotal(rs, { i \in DOMAIN rs : /\ rs[i].user_id = user_id
                                   /\ Qualifies(rs[i])
                                   /\ MonthOf(rs[i].purchased_at) = month })

\* C12: a confirm or update request runs all four detectors before it
\* returns: when it succeeds and leaves the month of its CONFIRMED expense
\* transaction above that month's non-zero budget, it has added a
\* budget_exceeded alert.
C12_AllFourDetectorsRun ==
  (result.op \in {"confirm", "update"} /\ result.status = "ok") =>
    LET r == receipts[result.receipt_id]
        month == MonthOf(r.purchased_at)
        budget == TotalBudget(Db, result.user_id, month)
    IN  (Qualifies(r) /\ budget # 0 /\ MonthSpent(receipts, result.user_id, month) > budget)
          => "budget_exceeded" \in NewKinds

\* what the last request's transaction wrote is in the committed tables
WritePersists ==
  receipts = result.work.receipts /\ receipt_items = result.work.receipt_items
AlertsPersist == alerts = result.work.alerts
NothingPersists ==
  /\ receipts = result.before.receipts
  /\ receipt_items = result.before.receipt_items
  /\ alerts = result.before.alerts

\* C13: transactional atomicity.  After a confirm or update the committed
\* tables hold the request's alerts only together with its receipt write and
\* its receipt write only together with its alerts; a request that did not
\* succeed leaves receipts, items and alerts as they were before it.
C13_Atomicity ==
  result.op \in {"confirm", "update"} =>
    /\ alerts # result.before.alerts => WritePersists
    /\ (receipts # result.before.receipts \/ receipt_items # result.before.receipt_items)
         => AlertsPersist
    /\ result.status = "ok" => (WritePersists /\ AlertsPersist)
    /\ result.status # "ok" => NothingPersists

\* a confirm whose commit fails after its detectors had inserted alerts
C13_Witness ==
  /\ result.op = "confirm" /\ result.failAt = "commit" /\ result.status = "error"
  /\ Len(result.work.alerts) > Len(result.before.alerts)
  /\ Len(result.work.receipts) > Len(result.before.receipts)
  /\ NothingPersists

\* C14: a detector failure aborts the write.  When a detector raises during
\* confirm or update the request reports the error and the receipt row, its
\* items and the alerts of the detectors that ran before are all absent.
C14_DetectorFailureAborts ==
  (result.op \in {"confirm", "update"} /\ result.failAt \in {"overspend", "daily", "fixed"})
    => (result.status = "error" /\ NothingPersists)

\* an update whose third detector raises after the first two inserted alerts
C14_Witness ==
  /\ result.op = "update" /\ result.failAt = "fixed" /\ result.status = "error"
  /\ Len(result.work.alerts) >= Len(result.before.alerts) + 2
  /\ result.work.receipts # result.before.receipts
  /\ NothingPersists

(* ----------------------- claims on the detectors ---------------------- *)
\* the transaction the last detector call was about, and the ledger it ran on
Trigger == result.before.receipts[result.receipt_id]
Ledger == result.before.receipts

\* the call inserted exactly one alert, of this kind, for the trigger's owner
Emitted(kind) ==
  /\ Len(alerts) = Len(result.before.alerts) + 1
  /\ alerts[Len(alerts)].type = kind
  /\ alerts[Len(alerts)].user_id = result.user_id
Silent == alerts = result.before.alerts

\* purchased on or after the day n months before today
Trailing(d, n) == d >= MonthsBefore(today, n)

\* the other transactions the category mean is taken over
CategoryHistory ==
  { i \in DOMAIN Ledger : /\ i # result.receipt_id
                          /\ Ledger[i].user_id = result.user_id
                          /\ Ledger[i].category = Trigger.category
                          /\ Qualifies(Ledger[i])
                          /\ Trailing(Ledger[i].purchased_at, 3) }

\* C15: CategoryOverspendDetector, called on a transaction that is not
\* deleted, emits an anomaly alert if and only if the transaction has a
\* category, at least one other qualifying transaction of the category exists,
\* and the amount is strictly greater than 2.5 times the mean of those.
C15_CategoryOverspend ==
  (result.op = "overspend" /\ ~Trigger.is_deleted) =>
    LET n == Cardinality(CategoryHistory)
        sum == SumTotal(Ledger, CategoryHistory)
        due == Trigger.category # NoCategory /\ n >= 1 /\ 2 * n * Trigger.total > 5 * sum
    IN  IF due THEN Emitted("anomaly") ELSE Silent

\* C16: no detector emits an alert when the triggering transaction itself is
\* PENDING, soft-deleted or not of type expense: a detector call on such a
\* transaction, and a confirm or update that writes one, adds no alert row.
C16_NoAlertForDisqualifiedTrigger ==
  ( /\ result.op \in {"overspend", "daily", "fixed", "monthly", "confirm", "update"}
    /\ result.status = "ok"
    /\ ~Qualifies(result.work.receipts[result.receipt_id]) )
    => alerts = result.before.alerts

\* the sum of the owner's budget entries for the trigger's month
TriggerBudget ==
  SumAmount(result.before.budgets,
            { i \in DOMAIN result.before.budgets :
                /\ result.before.budgets[i].user_id = result.user_id
                /\ result.before.budgets[i].month = MonthOf(Trigger.purchased_at) })

\* C17: MonthlyBudgetDetector, called on a CONFIRMED, non-deleted expense
\* transaction, emits a budget_exceeded alert if and only if the summed budget
\* of the transaction's month is non-zero and the owner's CONFIRMED,
\* non-deleted expense total of that month is strictly greater than it.
C17_MonthlyBudget ==
  (result.op = "monthly" /\ Qualifies(Trigger)) =>
    LET spent == MonthSpent(Ledger, result.user_id, MonthOf(Trigger.purchased_at))
    IN  IF TriggerBudget # 0 /\ spent > TriggerBudget
        THEN Emitted("budget_exceeded") ELSE Silent

\* a budget of 20 + 20 that the month's total of 41 exceeds by one
C17_Witness ==
  /\ result.op = "monthly" /\ Qualifies(Trigger)
  /\ Len(result.before.budgets) = 2 /\ TriggerBudget = 40
  /\ MonthSpent(Ledger, result.user_id, MonthOf(Trigger.purchased_at)) = 41
  /\ Emitted("budget_exceeded")

\* the owner's CONFIRMED, non-deleted expense total of the trigger's day
DaySpent ==
  SumTotal(Ledger, { i \in DOMAIN Ledger : /\ Ledger[i].user_id = result.user_id
                                           /\ Qualifies(Ledger[i])
                                           /\ Ledger[i].purchased_at = Trigger.purchased_at })

\* the same ledger with the month's budget in a single entry
OneEntry ==
  [result.before EXCEPT !.budgets =
     << Budget(result.user_id, MonthOf(Trigger.purchased_at), TriggerBudget) >>]

\* C18: DailyOverspendDetector, called on a CONFIRMED, non-deleted expense
\* transaction, emits an overspend alert if and only if the summed budget of
\* the month is non-zero and the day's total, the trigger included, is
\* strictly greater than 1.5 x (budget / days in the month); the decision is
\* the one taken with the same budget in a single entry.
C18_DailyOverspend ==
  (result.op = "daily" /\ Qualifies(Trigger)) =>
    LET days == DaysInMonth(MonthOf(Trigger.purchased_at))
        due == TriggerBudget # 0 /\ 2 * days * DaySpent > 3 * TriggerBudget
        single == check_daily_overspend_alert(OneEntry, result.user_id, result.receipt_id)
    IN  /\ IF due THEN Emitted("overspend") ELSE Silent
        /\ (single.alerts # OneEntry.alerts) <=> (alerts # result.before.alerts)

\* a budget of 400 + 400 in November: 1.5 x 800 / 30 = 40, and the day is at 41
C18_Witness ==
  /\ result.op = "daily" /\ Qualifies(Trigger)
  /\ Len(result.before.budgets) = 3 /\ TriggerBudget = 800
  /\ DaySpent = 41
  /\ Emitted("overspend")

\* the months, within the trailing 4 months, with a CONFIRMED, non-deleted
\* expense of the owner at the trigger's merchant and within 5% of its amount
SimilarMonths(ids) ==
  { MonthOf(Ledger[i].purchased_at) : i \in
      { j \in ids : /\ Ledger[j].user_id = result.user_id
                    /\ Ledger[j].merchant = Trigger.merchant
                    /\ Qualifies(Ledger[j])
                    /\ 100 * Ledger[j].total >= 95 * Trigger.total
                    /\ 100 * Ledger[j].total <= 105 * Trigger.total
                    /\ Trailing(Ledger[j].purchased_at, 4) } }

C20_OwnMonthCounts ==
  (result.op = "fixed" /\ Qualifies(Trigger)) =>
    LET counted == SimilarMonths(DOMAIN Ledger \ {result.receipt_id})
                     \cup { MonthOf(Trigger.purchased_at) }
    IN  Cardinality(counted) >= 3 => Emitted("fixed_detected")

(* ------------------- claims on the rows that count -------------------- *)
\* the detector of the last call, on other tables
Detector(name, conn, user_id, receipt_id) ==
  CASE name = "overspend" -> check_overspend_alert(conn, user_id, receipt_id)
    [] name = "daily" -> check_daily_overspend_alert(conn, user_id, receipt_id)
    [] name = "fixed" -> check_fixed_cost_alert(conn, user_id, receipt_id)
    [] name = "monthly" -> check_monthly_budget_alert(conn, user_id, receipt_id)

\* whether the detector emits an alert for the transaction receipt_id
Decides(name, conn, user_id, receipt_id) ==
  Detector(name, conn, user_id, receipt_id).alerts # conn.alerts

\* the other rows of the trigger's owner that are PENDING, soft-deleted or
\* not of type expense
Uncounted ==
  { i \in DOMAIN Ledger : /\ i # result.receipt_id
                          /\ Ledger[i].user_id = result.user_id
                          /\ ~Qualifies(Ledger[i]) }

\* what an edit can make of such a row while it stays such a row: another
\* amount, the trigger's day, the trigger's merchant and category
Edits(r) ==
  { [r EXCEPT !.total = t, !.purchased_at = d, !.merchant = k.merchant, !.category = k.category] :
      t \in {r.total, 1000}, d \in {r.purchased_at, Trigger.purchased_at}, k \in {r, Trigger} }

\* rows to insert: the trigger's merchant, category, day and amount in a row
\* that is PENDING, soft-deleted or not of type expense
Inserts == { x \in Variants([Trigger EXCEPT !.status = "CONFIRMED", !.type = "expense",
                                             !.is_deleted = FALSE]) : ~Qualifies(x) }

\* the table without its row i, and the place of the row id in it
Without(rs, i) == [j \in 1..(Len(rs) - 1) |-> IF j < i THEN rs[j] ELSE rs[j + 1]]
Shifted(id, i) == IF i < id THEN id - 1 ELSE id

\* C21: history filtering.  Whether a detector emits an alert for a given
\* triggering transaction does not change when a PENDING, soft-deleted or
\* non-expense row of the user is edited (and stays such a row), is removed,
\* or is inserted: only CONFIRMED, non-deleted expense rows enter the mean,
\* the day total, the month total and the matching-month count.
C21_HistoryFiltering ==
  result.op \in {"overspend", "daily", "fixed", "monthly"} =>
    LET emits == alerts # result.before.alerts
        same(rs, id) ==
          Decides(result.op, [result.before EXCEPT !.receipts = rs], result.user_id, id) <=> emits
    IN  /\ \A i \in Uncounted :
             /\ \A e \in Edits(Ledger[i]) : same([Ledger EXCEPT ![i] = e], result.receipt_id)
             /\ same(Without(Ledger, i), Shifted(result.receipt_id, i))
        /\ \A x \in Inserts : same(Append(Ledger, x), result.receipt_id)

\* a PENDING row of 21 on the trigger's day: counted, it would lift the day's
\* total of 40 over 1.5 x 800 / 30 = 40; the detector stays silent
C21_Witness ==
  /\ result.op = "daily" /\ Qualifies(Trigger)
  /\ TriggerBudget = 800 /\ DaySpent = 40
  /\ \E i \in Uncounted : /\ Ledger[i].status = "PENDING"
                           /\ Ledger[i].purchased_at = Trigger.purchased_at
                           /\ Ledger[i].total = 21
  /\ Silent

\* the kind of alert each detector inserts
KindOf(name) ==
  CASE name = "overspend" -> "anomaly"
    [] name = "daily" -> "overspend"
    [] name = "fixed" -> "fixed_detected"
    [] name = "monthly" -> "budget_exceeded"

AlertKinds == { "anomaly", "overspend", "fixed_detected", "budget_exceeded" }

\* the rows of the alerts table als after its first n
Added(als, n) == SubSeq(als, n + 1, Len(als))

\* C22: each detector invocation inserts at most one alert row, of the
\* detector's own kind, and leaves the rows already there as they are; hence
\* one confirm or update request adds at most one alert of each kind.
C22_OneAlertPerKind ==
  result.op \in {"confirm", "update"} =>
    /\ \A name \in {"overspend", "daily", "fixed", "monthly"} :
         LET conn == result.work
             out == Detector(name, conn, result.user_id, result.receipt_id)
             new == Added(out.alerts, Len(conn.alerts))
         IN  /\ Len(new) <= 1
             /\ SubSeq(out.alerts, 1, Len(conn.alerts)) = conn.alerts
             /\ \A i \in DOMAIN new : new[i].type = KindOf(name)
    /\ \A kind \in AlertKinds :
         Cardinality({ i \in DOMAIN NewAlerts : NewAlerts[i].type = kind }) <= 1
    /\ Len(Added(result.work.alerts, Len(result.before.alerts))) <= Len(result.detectors)

\* a confirm whose three detectors each inserted their alert
C22_Witness ==
  /\ result.op = "confirm" /\ result.status = "ok"
  /\ Len(NewAlerts) = 3
  /\ NewKinds = { "anomaly", "overspend", "fixed_detected" }

(* ------------------------ claims on the alerts ------------------------ *)
\* what a step may do to the alerts table
AlertStep ==
  /\ Len(alerts') >= Len(alerts)
  /\ \A i \in DOMAIN alerts :
       /\ [alerts'[i] EXCEPT !.is_read = alerts[i].is_read] = alerts[i]
       /\ alerts[i].is_read => alerts'[i].is_read
  /\ \A i \in DOMAIN alerts' \ DOMAIN alerts : ~alerts'[i].is_read

\* C23: alert lifecycle.  Across any sequence of confirm, update,
\* soft-delete, mark-read and mark-all-read operations no alert row is deleted,
\* no field of an existing alert other than is_read changes, a new alert
\* starts unread, and is_read only moves from false to true.
C23_AlertLifecycle == [][AlertStep]_vars

\* after a request that acknowledged alerts, a further request has added
\* alerts and left the acknowledged ones read
C23_Witness ==
  /\ result.op \in {"confirm", "update"} /\ result.status = "ok"
  /\ Len(alerts) > Len(result.before.alerts)
  /\ \E i \in DOMAIN result.before.alerts :
       /\ i <= 2
       /\ alerts[i].is_read
  /\ \E i \in DOMAIN result.before.alerts : ~alerts[i].is_read

\* C26: acknowledgement is scoped to the caller.  mark_alert_read for an
\* alert id that does not exist or belongs to another user answers 404 and
\* leaves every alert unchanged; mark_all_alerts_read sets is_read on exactly
\* the caller's unread alerts and leaves every other alert unchanged, after
\* which the caller's unread count is 0.
C26_ScopedAcknowledgement ==
  LET old == result.before.alerts
  IN  /\ ( /\ result.op = "read"
            /\ \/ result.alert_id \notin DOMAIN old
               \/ old[result.alert_id].user_id # result.user_id )
          => /\ alerts = old
             /\ result.failAt = "none" => result.status = "not_found"
      /\ (result.op = "read" /\ result.status = "ok")
          => alerts = [old EXCEPT ![result.alert_id].is_read = TRUE]
      /\ (result.op = "read_all" /\ result.status = "ok")
          => /\ DOMAIN alerts = DOMAIN old
             /\ \A i \in DOMAIN old :
                  alerts[i] = IF old[i].user_id = result.user_id /\ ~old[i].is_read
                              THEN [old[i] EXCEPT !.is_read = TRUE]
                              ELSE old[i]
             /\ unread_alert_count(Db, result.user_id) = 0

\* user 2 asks to acknowledge an unread alert of user 1 and is answered 404
C26_Witness ==
  /\ result.op = "read" /\ result.user_id = 2 /\ result.status = "not_found"
  /\ result.alert_id \in DOMAIN alerts
  /\ alerts[result.alert_id].user_id = 1
  /\ ~alerts[result.alert_id].is_read
  /\ unread_alert_count(Db, 2) > 0

(* ------------------- claims on the detectors' order ------------------- *)
DetectorNames == { "overspend", "daily", "fixed", "monthly" }

\* the sequences that name each of the detectors names once
Orders(names) ==
  { s \in [1..Cardinality(names) -> names] : \A i, j \in DOMAIN s : s[i] = s[j] => i = j }

RECURSIVE RunIn(_, _, _, _)
\* the detectors called one after the other in this order on one connection
RunIn(order, conn, user_id, receipt_id) ==
  IF order = <<>> THEN conn
  ELSE RunIn(Tail(order), Detector(Head(order), conn, user_id, receipt_id), user_id, receipt_id)

\* the tables of the last request at its first detector call
AtDetectors == [result.work EXCEPT !.alerts = result.before.alerts]

\* the set of alerts the detectors insert when called in this order
InsertedIn(order) ==
  LET out == RunIn(order, AtDetectors, result.user_id, result.receipt_id).alerts
  IN  { out[i] : i \in (Len(AtDetectors.alerts) + 1)..Len(out) }

\* C24: detector order-insensitivity.  On the tables a confirm or update
\* has written, the detectors called in any order insert the same set of
\* alerts (kind, message, related transaction): the three the handler calls
\* insert the set the request inserted, and the four insert one set in all
\* 24 orders.
C24_OrderInsensitive ==
  (result.op \in {"confirm", "update"} /\ result.status = "ok") =>
    /\ \A order \in Orders({ "overspend", "daily", "fixed" }) :
         InsertedIn(order) = { NewAlerts[i] : i \in DOMAIN NewAlerts }
    /\ LET all == InsertedIn(<< "overspend", "daily", "fixed", "monthly" >>)
       IN  \A order \in Orders(DetectorNames) : InsertedIn(order) = all

\* an update after which three detectors had alerts to insert; called in the
\* reverse order they insert them in another sequence
C24_Witness ==
  /\ result.op = "update" /\ result.status = "ok"
  /\ Len(NewAlerts) = 3
  /\ LET out == RunIn(<< "fixed", "daily", "overspend" >>, AtDetectors,
                      result.user_id, result.receipt_id).alerts
     IN  /\ Len(out) = Len(alerts)
         /\ out # alerts

(* ----------------------- claims on repeated edits --------------------- *)
\* the number of alerts of a kind in the table als
CountKind(als, kind) == Cardinality({ i \in DOMAIN als : als[i].type = kind })

\* the payloads the last update can have carried
Applied ==
  { p \in Payloads :
      UpdateBody(result.before, result.user_id, result.receipt_id, p, "none").work = result.work }

\* C25: no deduplication across edits.  When an update has been applied
\* and is applied once more with identical data, the second inserts a new
\* alert of every kind the first inserted (the transaction satisfies that
\* detector's condition) and of no other kind: the number of alerts of such a
\* kind grows by one per update.
C25_NoDeduplication ==
  (result.op = "update" /\ result.status = "ok") =>
    \A p \in Applied :
      LET again == UpdateBody(Db, result.user_id, result.receipt_id, p, "none")
      IN  /\ again.status = "ok"
          /\ \A kind \in AlertKinds :
               /\ CountKind(alerts, kind) =
                    CountKind(result.before.alerts, kind) + (IF kind \in NewKinds THEN 1 ELSE 0)
               /\ CountKind(again.work.alerts, kind) =
                    CountKind(alerts, kind) + (IF kind \in NewKinds THEN 1 ELSE 0)

\* the second of two identical updates: the row is as the first left it and
\* each alert it inserted is one the table already held
C25_Witness ==
  /\ result.op = "update" /\ result.status = "ok"
  /\ result.before.receipts = receipts
  /\ Len(NewAlerts) = 2
  /\ \A i \in DOMAIN NewAlerts :
       \E j \in DOMAIN result.before.alerts : result.before.alerts[j] = NewAlerts[i]
  /\ CountKind(alerts, "overspend") = 2 /\ CountKind(alerts, "fixed_detected") = 2

(* --------------------- claims on the submitted type ------------------- *)
\* the payloads the last confirm or update can have carried
Submitted ==
  { p \in Payloads :
      IF result.op = "confirm"
      THEN ConfirmBody(result.before, result.user_id, p, "none").work = result.work
      ELSE p \in Applied }

\* C27: the type submitted in a confirm or update request is the type the
\* detectors see for the transaction: the row has the submitted type, and a
\* transaction submitted as income or transfer triggers no alert.
C27_SubmittedTypeIsSeen ==
  (result.op \in {"confirm", "update"} /\ result.status = "ok") =>
    \A p \in Submitted :
      /\ receipts[result.receipt_id].type = p.type
      /\ p.type # "expense" => NewAlerts = <<>>

(* ---------------------- claims on user isolation ---------------------- *)
\* the transaction the last confirm or update wrote
Written == result.work.receipts[result.receipt_id]

\* what can become of a row and of a budget entry of another user
RowChanges == 1..4
RowChange(k, r) ==
  CASE k = 1 -> r
    [] k = 2 -> [r EXCEPT !.total = 1000]
    [] k = 3 -> [r EXCEPT !.total = 0, !.is_deleted = TRUE]
    [] k = 4 -> [r EXCEPT !.merchant = Written.merchant, !.category = Written.category,
                          !.total = Written.total, !.purchased_at = Written.purchased_at,
                          !.status = "CONFIRMED", !.is_deleted = FALSE]
BudgetChanges == 1..3
BudgetChange(k, b) ==
  CASE k = 1 -> b
    [] k = 2 -> [b EXCEPT !.amount = 0]
    [] k = 3 -> [b EXCEPT !.amount = 1, !.month = MonthOf(Written.purchased_at)]

Other(u) == u # result.user_id

\* the tables at the first detector call with other users' rows or budget
\* entries changed, and with one more row and entry of another user
Elsewhere ==
  LET c == AtDetectors
  IN  { [c EXCEPT !.receipts = [i \in DOMAIN @ |-> IF Other(@[i].user_id)
                                                   THEN RowChange(kj[1], @[i]) ELSE @[i]]
                                 \o extra.receipts,
                  !.budgets = [i \in DOMAIN @ |-> IF Other(@[i].user_id)
                                                  THEN BudgetChange(kj[2], @[i]) ELSE @[i]]
                                \o extra.budgets] :
          kj \in { p \in RowChanges \X BudgetChanges : p[1] = 1 \/ p[2] = 1 },
          extra \in { [receipts |-> <<>>, budgets |-> <<>>] }
                    \cup { [receipts |-> << [Written EXCEPT !.user_id = u] >>,
                            budgets |-> << Budget(u, MonthOf(Written.purchased_at), 1) >>] :
                            u \in { v \in LedgerUsers : Other(v) } } }

\* the tables at the first detector call without the rows and budget entries
\* of other users, and the place of the written transaction in them
Alone ==
  [AtDetectors EXCEPT !.receipts = SelectSeq(@, LAMBDA r : ~Other(r.user_id)),
                      !.budgets = SelectSeq(@, LAMBDA b : ~Other(b.user_id))]
AloneId ==
  Cardinality({ i \in 1..result.receipt_id : ~Other(AtDetectors.receipts[i].user_id) })

\* the alerts the detectors of the handlers append to the tables conn for the
\* transaction id
Appended(conn, id) ==
  Added(RunIn(<< "overspend", "daily", "fixed" >>, conn, result.user_id, id).alerts,
        Len(conn.alerts))

\* an alert without the id of its related transaction
Unrelated(als) == [i \in DOMAIN als |-> [als[i] EXCEPT !.related_receipt_id = NoReceipt]]

\* C28: user isolation.  Every alert inserted while handling user A's
\* confirm or update has user_id = A and, when it names a related
\* transaction, that transaction belongs to A; the alerts emitted for A are
\* the same in ledger states that differ only in other users' transactions
\* and budgets.
C28_UserIsolation ==
  (result.op \in {"confirm", "update"} /\ result.status = "ok") =>
    /\ \A i \in DOMAIN NewAlerts :
         /\ NewAlerts[i].user_id = result.user_id
         /\ NewAlerts[i].related_receipt_id # NoReceipt =>
              receipts[NewAlerts[i].related_receipt_id].user_id = result.user_id
    /\ \A conn \in Elsewhere :
         Appended(conn, result.receipt_id) = Appended(AtDetectors, result.receipt_id)
    /\ Unrelated(Appended(Alone, AloneId)) = Unrelated(Appended(AtDetectors, result.receipt_id))

\* user 1 is alerted on a ledger where user 2 has a row of the same day,
\* merchant and category and a budget of the same month
C28_Witness ==
  /\ result.op = "confirm" /\ result.status = "ok" /\ result.user_id = 1
  /\ "overspend" \in NewKinds
  /\ \E i \in DOMAIN receipts : /\ receipts[i].user_id = 2
                                 /\ receipts[i].purchased_at = Written.purchased_at
                                 /\ receipts[i].merchant = Written.merchant
                                 /\ receipts[i].category = Written.category
  /\ \E i \in DOMAIN budgets : /\ budgets[i].user_id = 2
                                /\ budgets[i].month = MonthOf(Written.purchased_at)
                                /\ budgets[i].amount = 900

(* ------------------- claims on concurrent requests -------------------- *)
\* the user's CONFIRMED, non-deleted expense total of a day in the table rs
DayTotal(rs, user_id, day) ==
  SumTotal(rs, { i \in DOMAIN rs : /\ rs[i].user_id = user_id
                                   /\ Qualifies(rs[i])
                                   /\ rs[i].purchased_at = day })

\* two confirm requests of one user for one day that have both committed, a first
BothCommitted(a, b) ==
  /\ a # b
  /\ conns[a].op = "confirm" /\ conns[b].op = "confirm"
  /\ conns[a].user_id = conns[b].user_id
  /\ conns[a].payload.purchased_at = conns[b].payload.purchased_at
  /\ conns[a].status = "ok" /\ conns[b].status = "ok"
  /\ conns[a].order < conns[b].order

\* each transaction alone leaves the day at or under 1.5 x the daily target,
\* the two together lift it over
OnlyTogether(a, b) ==
  LET user_id == conns[a].user_id
      day == conns[a].payload.purchased_at
      budget == TotalBudget(Db, user_id, MonthOf(day))
      days == DaysInMonth(MonthOf(day))
      total == DayTotal(receipts, user_id, day)
      ta == receipts[conns[a].receipt_id].total
      tb == receipts[conns[b].receipt_id].total
  IN  /\ budget # 0
      /\ Qualifies(receipts[conns[a].receipt_id]) /\ Qualifies(receipts[conns[b].receipt_id])
      /\ 2 * days * (total - tb) <= 3 * budget
      /\ 2 * days * (total - ta) <= 3 * budget
      /\ 2 * days * total > 3 * budget

\* C29: no missed threshold under concurrency.  When two confirm requests
\* of one user for one day run side by side and both commit, the second to
\* commit ran its detectors on tables that hold the first one's transaction;
\* and if each alone leaves the day under 1.5 x the daily target but the two
\* together lift it over, an overspend alert is committed.
C29_NoMissedThreshold ==
  \A a, b \in DOMAIN conns :
    BothCommitted(a, b) =>
      /\ conns[a].receipt_id # conns[b].receipt_id
      /\ conns[a].receipt_id \in DOMAIN conns[b].at.receipts
      /\ conns[b].at.receipts[conns[a].receipt_id] = receipts[conns[a].receipt_id]
      /\ OnlyTogether(a, b) =>
           \E k \in DOMAIN alerts : /\ alerts[k].type = "overspend"
                                    /\ alerts[k].user_id = conns[a].user_id
                                    /\ alerts[k].message.day = conns[a].payload.purchased_at

\* both purchases of 21 are committed: 8 + 21 stays under 30, 8 + 21 + 21 is
\* over, and the one overspend alert is the second's
C29_Witness ==
  \E a, b \in DOMAIN conns :
    /\ BothCommitted(a, b) /\ OnlyTogether(a, b)
    /\ CountKind(alerts, "overspend") = 1
    /\ \E k \in DOMAIN alerts : /\ alerts[k].type = "overspend"
                                 /\ alerts[k].related_receipt_id = conns[b].receipt_id

\* C30: an update never touches a soft-deleted transaction.  Under every
\* interleaving of update_receipt and soft_delete_receipt on one transaction,
\* if the transaction is soft-deleted when the update's writes are applied,
\* the update changes neither the receipt row nor its item rows and does not
\* report success.
C30_UpdateSkipsDeleted ==
  \A i \in DOMAIN conns :
    LET c == conns[i]
    IN  ( /\ c.op = "update" /\ c.pc = "done" /\ c.at # NoTables
          /\ c.at.receipts[c.receipt_id].is_deleted )
          => /\ c.work.receipts = c.at.receipts
             /\ c.work.receipt_items = c.at.receipt_items
             /\ c.status # "ok"

====
